---- MODULE Spec2Model ----
(***************************************************************************)
(* Model of the ERD change-detection action (src/src/index.ts).            *)
(*                                                                         *)
(* Texts are sequences of characters.  A character is a one-character      *)
(* string, or a named atom for the characters a TLA+ string literal cannot *)
(* hold (the backtick and the non-ASCII code points).                      *)
(***************************************************************************)
EXTENDS Integers, Sequences, FiniteSets, TLC

VARIABLES pc, schemaFiles, currentERD, prompt, response, result,
          currentNorm, newNorm, events, summary, failed, fetchCalls,
          call, ret

vars == <<pc, schemaFiles, currentERD, prompt, response, result,
          currentNorm, newNorm, events, summary, failed, fetchCalls,
          call, ret>>

runVars == <<schemaFiles, currentERD, prompt, response, result,
             currentNorm, newNorm, events, summary, failed, fetchCalls>>

-----------------------------------------------------------------------------
(* Characters and texts *)

Str(s) == [i \in 1..Len(s) |-> SubSeq(s, i, i)]

BT == "BACKTICK"
E_ACUTE == "U+00E9"
EURO == "U+20AC"
GRIN == "U+1F600"
REPLACEMENT == "U+FFFD"

AsciiLow == Str(" !\"#$%&'()*+,-./0123456789:;<=>?@ABCDEFGHIJKLMNOPQRSTUVWXYZ[\\]^_")
AsciiHigh == Str("abcdefghijklmnopqrstuvwxyz{|}~")

IndexOf(c, tab) == CHOOSE i \in 1..Len(tab) : tab[i] = c

InTable(c, tab) == \E i \in 1..Len(tab) : tab[i] = c

\* The Unicode code point of a character of the model's alphabet.
codePointAt(c) ==
  CASE c = "\t" -> 9
    [] c = "\n" -> 10
    [] c = "\r" -> 13
    [] c = BT -> 96
    [] c = E_ACUTE -> 233
    [] c = EURO -> 8364
    [] c = REPLACEMENT -> 65533
    [] c = GRIN -> 128512
    [] InTable(c, AsciiLow) -> 31 + IndexOf(c, AsciiLow)
    [] OTHER -> 96 + IndexOf(c, AsciiHigh)

NonAscii == {E_ACUTE, EURO, REPLACEMENT, GRIN}

fromCodePoint(cp) ==
  CASE cp = 9 -> "\t"
    [] cp = 10 -> "\n"
    [] cp = 13 -> "\r"
    [] cp = 96 -> BT
    [] cp >= 32 /\ cp < 96 -> AsciiLow[cp - 31]
    [] cp > 96 /\ cp < 127 -> AsciiHigh[cp - 96]
    [] OTHER -> CHOOSE c \in NonAscii : codePointAt(c) = cp

\* String.prototype.trim strips white space and line terminators.
IsWhite(c) == c \in {" ", "\t", "\n", "\r"}

trim(s) ==
  IF \A i \in 1..Len(s) : IsWhite(s[i]) THEN <<>>
  ELSE LET first == CHOOSE i \in 1..Len(s) :
                      ~IsWhite(s[i]) /\ \A j \in 1..(i-1) : IsWhite(s[j])
           last == CHOOSE i \in 1..Len(s) :
                      ~IsWhite(s[i]) /\ \A j \in (i+1)..Len(s) : IsWhite(s[j])
       IN SubSeq(s, first, last)

UpperLetters == Str("ABCDEFGHIJKLMNOPQRSTUVWXYZ")
LowerLetters == Str("abcdefghijklmnopqrstuvwxyz")

lowerChar(c) ==
  IF InTable(c, UpperLetters) THEN LowerLetters[IndexOf(c, UpperLetters)] ELSE c

toLowerCase(s) == [i \in 1..Len(s) |-> lowerChar(s[i])]

startsWith(s, p) == Len(s) >= Len(p) /\ SubSeq(s, 1, Len(p)) = p

endsWith(s, p) == Len(s) >= Len(p) /\ SubSeq(s, Len(s) - Len(p) + 1, Len(s)) = p

includes(s, p) == \E i \in 1..(Len(s) + 1) : startsWith(SubSeq(s, i, Len(s)), p)

RECURSIVE split(_, _)
\* s.split(sep) for a one-character separator: always at least one piece.
split(s, sep) ==
  IF \A i \in 1..Len(s) : s[i] # sep THEN <<s>>
  ELSE LET k == CHOOSE i \in 1..Len(s) :
                  s[i] = sep /\ \A j \in 1..(i-1) : s[j] # sep
       IN <<SubSeq(s, 1, k - 1)>> \o split(SubSeq(s, k + 1, Len(s)), sep)

RECURSIVE join(_, _)
join(parts, sep) ==
  IF parts = <<>> THEN <<>>
  ELSE IF Len(parts) = 1 THEN parts[1]
  ELSE parts[1] \o sep \o join(Tail(parts), sep)

RECURSIVE replaceCRLF(_)
\* s.replace(/\r\n/g, "\n")
replaceCRLF(s) ==
  IF s = <<>> THEN <<>>
  ELSE IF Len(s) >= 2 /\ s[1] = "\r" /\ s[2] = "\n"
       THEN <<"\n">> \o replaceCRLF(SubSeq(s, 3, Len(s)))
       ELSE <<s[1]>> \o replaceCRLF(Tail(s))

-----------------------------------------------------------------------------
(* UTF-8, as Buffer.from(s, "utf8") and Buffer.prototype.toString("utf8") *)

encodeCodePoint(cp) ==
  IF cp < 128 THEN <<cp>>
  ELSE IF cp < 2048 THEN <<192 + (cp \div 64), 128 + (cp % 64)>>
  ELSE IF cp < 65536
       THEN <<224 + (cp \div 4096), 128 + ((cp \div 64) % 64), 128 + (cp % 64)>>
       ELSE <<240 + (cp \div 262144), 128 + ((cp \div 4096) % 64),
              128 + ((cp \div 64) % 64), 128 + (cp % 64)>>

RECURSIVE utf8Encode(_)
utf8Encode(s) ==
  IF s = <<>> THEN <<>>
  ELSE encodeCodePoint(codePointAt(s[1])) \o utf8Encode(Tail(s))

IsContinuation(b) == b >= 128 /\ b < 192

SeqLenOfLead(b) ==
  IF b < 128 THEN 1
  ELSE IF b >= 192 /\ b < 224 THEN 2
  ELSE IF b >= 224 /\ b < 240 THEN 3
  ELSE IF b >= 240 /\ b < 248 THEN 4
  ELSE 0

\* How many continuation bytes follow position 1 of b, up to want.
RECURSIVE contRun(_, _)
contRun(b, want) ==
  IF want = 0 \/ b = <<>> \/ ~IsContinuation(b[1]) THEN 0
  ELSE 1 + contRun(Tail(b), want - 1)

decodeSeq(b, n) ==
  IF n = 1 THEN b[1]
  ELSE IF n = 2 THEN (b[1] - 192) * 64 + (b[2] - 128)
  ELSE IF n = 3 THEN (b[1] - 224) * 4096 + (b[2] - 128) * 64 + (b[3] - 128)
  ELSE (b[1] - 240) * 262144 + (b[2] - 128) * 4096 + (b[3] - 128) * 64 + (b[4] - 128)

RECURSIVE utf8Decode(_)
\* An incomplete or ill-formed sequence decodes to one U+FFFD.
utf8Decode(b) ==
  IF b = <<>> THEN <<>>
  ELSE LET n == SeqLenOfLead(b[1])
           got == IF n = 0 THEN 0 ELSE contRun(Tail(b), n - 1)
       IN IF n # 0 /\ got = n - 1
          THEN <<fromCodePoint(decodeSeq(b, n))>> \o utf8Decode(SubSeq(b, n + 1, Len(b)))
          ELSE <<REPLACEMENT>> \o utf8Decode(SubSeq(b, got + 2, Len(b)))

clampBytes(s, max) ==
  LET b == utf8Encode(s)
  IN IF Len(b) <= max THEN s ELSE utf8Decode(SubSeq(b, 1, max))

-----------------------------------------------------------------------------
(* normalizeERD *)

SelectNonEmpty(lines) == SelectSeq(lines, LAMBDA l : Len(l) > 0)

normalizeERD(s) ==
  LET lines == split(replaceCRLF(s), "\n")
      trimmed == [i \in 1..Len(lines) |-> trim(lines[i])]
  IN toLowerCase(join(SelectNonEmpty(trimmed), <<"\n">>))

-----------------------------------------------------------------------------
(* callOpenAI: the cleaning of the first completion's text *)

FENCE == <<BT, BT, BT>>
MERMAID == Str("mermaid")

\* data.choices?.[0]?.message?.content?.trim() || ""
firstCompletionText(resp) == IF resp.hasContent THEN trim(resp.content) ELSE <<>>

\* Variant: the opening fence is stripped without its language tag.
stripOpeningFenceOnly(text) ==
  IF startsWith(text, FENCE) THEN SubSeq(text, 4, Len(text)) ELSE text

\* text.replace(/^```(?:mermaid)?/i, "")
stripOpeningFence(text) ==
  IF ~startsWith(text, FENCE) THEN text
  ELSE LET rest == SubSeq(text, 4, Len(text))
       IN IF startsWith(toLowerCase(rest), MERMAID)
          THEN SubSeq(rest, Len(MERMAID) + 1, Len(rest))
          ELSE rest

\* text.replace(/```$/i, "")
stripClosingFence(text) ==
  IF endsWith(text, FENCE) THEN SubSeq(text, 1, Len(text) - 3) ELSE text

cleanCompletion(resp) ==
  trim(stripClosingFence(stripOpeningFence(firstCompletionText(resp))))

-----------------------------------------------------------------------------
(* buildPrompt *)

SCHEMA_RB == Str("db/schema.rb")

\* Variant: the comparator tests its second argument.
compareFnSecond(a, b) == IF includes(b.path, SCHEMA_RB) THEN -1 ELSE 0

\* (a, b) => (a.path.includes("db/schema.rb") ? -1 : 0)
compareFn(a, b) == IF includes(a.path, SCHEMA_RB) THEN -1 ELSE 0

RECURSIVE runEnd(_, _, _)
\* Last index (1-based) of the run that starts at arr[1], scanning from idx.
runEnd(arr, descending, idx) ==
  IF idx > Len(arr) THEN Len(arr)
  ELSE LET order == compareFn(arr[idx], arr[idx - 1])
       IN IF (descending /\ order >= 0) \/ (~descending /\ order < 0)
          THEN idx - 1
          ELSE runEnd(arr, descending, idx + 1)

reverse(arr) == [i \in 1..Len(arr) |-> arr[Len(arr) + 1 - i]]

\* The first natural run, made ascending: <<array, run length>>.
countAndMakeRun(arr) ==
  LET descending == compareFn(arr[2], arr[1]) < 0
      n == runEnd(arr, descending, 3)
  IN IF descending
     THEN <<reverse(SubSeq(arr, 1, n)) \o SubSeq(arr, n + 1, Len(arr)), n>>
     ELSE <<arr, n>>

RECURSIVE binarySearch(_, _, _, _)
\* Insertion point (0-based) of pivot in arr[left..right-1] (0-based bounds).
binarySearch(arr, pivot, left, right) ==
  IF left >= right THEN left
  ELSE LET mid == left + ((right - left) \div 2)
       IN IF compareFn(pivot, arr[mid + 1]) < 0
          THEN binarySearch(arr, pivot, left, mid)
          ELSE binarySearch(arr, pivot, mid + 1, right)

RECURSIVE binaryInsertionSort(_, _)
\* arr[1..start] is sorted; insert arr[start+1], arr[start+2], ... in turn.
binaryInsertionSort(arr, start) ==
  IF start >= Len(arr) THEN arr
  ELSE LET pivot == arr[start + 1]
           left == binarySearch(arr, pivot, 0, start)
           moved == SubSeq(arr, 1, left) \o <<pivot>> \o SubSeq(arr, left + 1, start)
                      \o SubSeq(arr, start + 2, Len(arr))
       IN binaryInsertionSort(moved, start + 1)

\* Array.prototype.sort with compareFn, as the runtime of the action (Node.js,
\* V8) computes it for arrays shorter than 64 elements: one natural run, then
\* binary insertion of the remaining elements.
sortSchemaFiles(files) ==
  IF Len(files) < 2 THEN files
  ELSE LET run == countAndMakeRun(files)
       IN binaryInsertionSort(run[1], run[2])

MAX_SCHEMA_BYTES == 250000

HEADING == Str("# ")
DELIMITER == Str("\n\n---\n\n")

schemaJoined(files) ==
  join([i \in 1..Len(files) |-> HEADING \o files[i].path \o <<"\n">> \o files[i].content],
       DELIMITER)

CURRENT_LABEL == Str("CURRENT_ERD:\n")
CURRENT_NONE == Str("CURRENT_ERD: (none)")

\* A stored diagram is [present |-> BOOLEAN, text |-> Text]; null and the empty
\* string are the falsy values of string | null.
truthy(erd) == erd.present /\ erd.text # <<>>

currentSection(erd) == IF truthy(erd) THEN CURRENT_LABEL \o erd.text ELSE CURRENT_NONE

\* The parts of the prompt that vary; the instruction text around them is fixed.
buildPrompt(repo, files, erd) ==
  [repo |-> repo,
   current |-> currentSection(erd),
   schemaSnippets |-> clampBytes(schemaJoined(sortSchemaFiles(files)), MAX_SCHEMA_BYTES)]

-----------------------------------------------------------------------------
(* Bounds and the inputs drawn within them *)

MaxCollected == 2
MaxFiles == 4
MaxChars == 3
MaxBudget == 6
MaxLines == 2

SeqsUpTo(S, n) == UNION {[1..k -> S] : k \in 0..n}

Distinct(seq) == \A i, j \in 1..Len(seq) : i # j => seq[i] # seq[j]

\* The repository's schema-like files: two whose path contains db/schema.rb,
\* a near miss, and two others.
Paths == {Str("db/schema.rb"), Str("e/db/schema.rb"), Str("db/schema.r"),
          Str("a.sql"), Str("b.sql")}

contentOf(path) == Str("t ") \o SubSeq(path, 1, 1)

FileBlob(path) ==
  [path |-> path, size |-> Len(utf8Encode(contentOf(path))), content |-> contentOf(path)]

\* globby returns each matching path once.
FileLists(n) == {[i \in 1..Len(ps) |-> FileBlob(ps[i])] : ps \in {q \in SeqsUpTo(Paths, n) : Distinct(q)}}

Absent == [present |-> FALSE, text |-> <<>>]
Stored(text) == [present |-> TRUE, text |-> text]

DIAGRAM_A == Str("erDiagram\n  A")
DIAGRAM_A_COSMETIC == Str("ERDIAGRAM\r\n\r\n A  ")
DIAGRAM_B == Str("erDiagram\n  B")
PROSE == Str("Hello")

StoredDiagrams == {Absent, Stored(<<>>), Stored(DIAGRAM_A), Stored(PROSE)}

NO_CHANGE == Str("NO_CHANGE")

Bodies == {NO_CHANGE, Str("no_Change"), Str("NO_CHANGE."), DIAGRAM_A, DIAGRAM_A_COSMETIC,
           DIAGRAM_B, PROSE, <<>>}

\* A completion as the generator may lay it out: padding, an opening fence
\* with a language tag, the body, a closing fence.
Tags == {<<>>, Str("mermaid"), Str("Mermaid"), Str("text")}
Layouts == [pad : {<<>>, Str(" \n")}, open : BOOLEAN, tag : Tags, close : BOOLEAN, body : Bodies]

WellFormedLayout(l) == ~l.open => l.tag = <<>>

render(l) ==
  l.pad \o (IF l.open THEN FENCE \o l.tag \o <<"\n">> ELSE <<>>)
        \o l.body
        \o (IF l.close THEN <<"\n">> \o FENCE ELSE <<>>) \o l.pad

Completions == {l \in Layouts : WellFormedLayout(l)}

OkResponse(l) ==
  [kind |-> "ok", status |-> 200, hasContent |-> TRUE, content |-> render(l), layout |-> l]

NoLayout == [pad |-> <<>>, open |-> FALSE, tag |-> <<>>, close |-> FALSE, body |-> <<>>]

\* A success response with no choices[0].message.content.
EmptyChoices ==
  [kind |-> "ok", status |-> 200, hasContent |-> FALSE, content |-> <<>>, layout |-> NoLayout]

ErrorResponse(kind, status, body) ==
  [kind |-> kind, status |-> status, hasContent |-> FALSE, content |-> body, layout |-> NoLayout]

\* The completions the run is driven with: unfenced, or fenced on both sides.
RunCompletions ==
  {l \in Completions : l.pad = <<>> /\ l.open = l.close /\ l.tag \in {<<>>, MERMAID}}

Responses ==
  {OkResponse(l) : l \in RunCompletions} \cup {EmptyChoices}
    \cup {ErrorResponse("http_error", 429, Str("rate limited")),
          ErrorResponse("http_error", 500, <<>>),
          ErrorResponse("transport_error", 0, Str("fetch failed")),
          ErrorResponse("bad_json", 200, Str("Unexpected token"))}

-----------------------------------------------------------------------------
(* run *)

NotComputed == <<"UNSET">>
NoPrompt == [repo |-> "", current |-> <<>>, schemaSnippets |-> <<>>]
NoResponse == ErrorResponse("none", 0, <<>>)
NoCall == [fn |-> "none"]

REPO == "owner/repo"
OUTPUT_PATH == Str("erd.md")

Event(level, msg) == [level |-> level, msg |-> msg]

NO_SCHEMA_MSG == Str("No schema-like files found. Adjust 'schema_globs'.")
OUT_OF_DATE_MSG == Str("ERD out of date")
UNRECOGNIZED_MSG ==
  Str("Model did not return NO_CHANGE or an 'erDiagram' block. Treating as material change.")
\* The head of the line-145 message, up to its dash.
NO_CHANGE_MSG == Str("Model reported NO_CHANGE")
MATCH_MSG == Str("Normalized ERDs match; treating as NO_CHANGE.")
DETECTED_MSG == Str("Detected current ERD as\n")
RECEIVED_MSG == Str("Recieved the following response from OpenAI\n")
API_ERROR_MSG == Str("OpenAI API error: ")

RECURSIVE digits(_)
digits(n) == IF n < 10 THEN <<AsciiLow[17 + n]>> ELSE digits(n \div 10) \o <<AsciiLow[17 + (n % 10)]>>

\* Variant: the response body is left out of the error.
errorMessageStatusOnly(resp) ==
  IF resp.kind = "http_error" THEN API_ERROR_MSG \o digits(resp.status) ELSE resp.content

\* err.message of what callOpenAI throws.
errorMessage(resp) ==
  IF resp.kind = "http_error"
  THEN API_ERROR_MSG \o digits(resp.status) \o <<" ">> \o resp.content
  ELSE resp.content

\* Variant: the sentinel test without the i flag.
isSentinelCaseSensitive(text) == text = NO_CHANGE

\* /^no_change$/i.test(result)
isSentinel(text) == toLowerCase(text) = toLowerCase(NO_CHANGE)

ERDIAGRAM == Str("erdiagram")

\* Variant: the code block carries no language label.
summaryTextUnlabelled(outputPath, text) ==
  join(<<Str("### ERD requires update"), FENCE, text, FENCE>>, <<"\n">>)

summaryText(outputPath, text) ==
  join(<<Str("### ERD requires update"),
         <<>>,
         Str("The generated ERD differs **materially** from the file in the repo."),
         Str("Please update ") \o <<BT>> \o outputPath \o <<BT>> \o Str(" to the following:"),
         <<>>,
         FENCE \o MERMAID,
         text,
         FENCE>>, <<"\n">>)

errorLine(outputPath) ==
  Str("Material ERD change detected. Update ") \o outputPath
    \o Str(" with the ERD shown in the job summary.")

\* Variant: the empty collection is not checked.
noSchemaFilesUnchecked(files) == FALSE

\* line 129
noSchemaFiles(files) == Len(files) = 0

\* Variant: the stored diagram is compared as written.
currentNormRaw(erd) == IF truthy(erd) THEN erd.text ELSE <<>>

\* line 154
currentNormOf(erd) == IF truthy(erd) THEN normalizeERD(erd.text) ELSE <<>>

Init ==
  /\ pc = "start" /\ schemaFiles = <<>> /\ currentERD = Absent /\ prompt = NoPrompt
  /\ response = NoResponse /\ result = <<>>
  /\ currentNorm = NotComputed /\ newNorm = NotComputed
  /\ events = <<>> /\ summary = <<>> /\ failed = <<>> /\ fetchCalls = 0
  /\ call = NoCall /\ ret = <<>>

\* lines 128-132: collect, and the guard on an empty result
Collect ==
  /\ pc = "start"
  /\ \E files \in FileLists(MaxCollected) :
       /\ schemaFiles' = files
       /\ IF noSchemaFiles(files)
          THEN /\ failed' = Append(failed, NO_SCHEMA_MSG)
               /\ events' = Append(events, Event("setFailed", NO_SCHEMA_MSG))
               /\ pc' = "done"
          ELSE /\ pc' = "read"
               /\ UNCHANGED <<failed, events>>
  /\ UNCHANGED <<currentERD, prompt, response, result, currentNorm, newNorm,
                 summary, fetchCalls, call, ret>>

nullable(erd) == IF erd.present THEN erd.text ELSE Str("null")

\* lines 134-140: read the stored diagram, compose the prompt (sort is in place)
ReadAndCompose ==
  /\ pc = "read"
  /\ \E erd \in StoredDiagrams :
       /\ currentERD' = erd
       /\ events' = Append(events, Event("info", DETECTED_MSG \o nullable(erd)))
       /\ prompt' = buildPrompt(REPO, schemaFiles, erd)
  /\ schemaFiles' = sortSchemaFiles(schemaFiles)
  /\ pc' = "call"
  /\ UNCHANGED <<response, result, currentNorm, newNorm, summary, failed,
                 fetchCalls, call, ret>>

\* lines 94-107: one request; a transport failure, a non-success status or an
\* unparsable body rejects, otherwise the cleaned completion is returned
CallOpenAI ==
  /\ pc = "call"
  /\ fetchCalls' = fetchCalls + 1
  /\ \E resp \in Responses :
       /\ response' = resp
       /\ IF resp.kind = "ok"
          THEN result' = cleanCompletion(resp) /\ pc' = "classify"
          ELSE result' = result /\ pc' = "rejected"
  /\ UNCHANGED <<schemaFiles, currentERD, prompt, currentNorm, newNorm, events,
                 summary, failed, call, ret>>

\* line 181: run().catch(err => core.setFailed(err.message))
Catch ==
  /\ pc = "rejected"
  /\ failed' = Append(failed, errorMessage(response))
  /\ events' = Append(events, Event("setFailed", errorMessage(response)))
  /\ pc' = "done"
  /\ UNCHANGED <<schemaFiles, currentERD, prompt, response, result, currentNorm,
                 newNorm, summary, fetchCalls, call, ret>>

warnings(text) ==
  IF startsWith(toLowerCase(text), ERDIAGRAM) THEN <<>>
  ELSE <<Event("warning", UNRECOGNIZED_MSG)>>

\* lines 143-160: the sentinel test, the warning, the normalized comparison
Classify ==
  /\ pc = "classify"
  /\ LET received == Event("info", RECEIVED_MSG \o result)
         cur == currentNormOf(currentERD)
         new == normalizeERD(result)
     IN IF isSentinel(result)
        THEN /\ events' = events \o <<received, Event("info", NO_CHANGE_MSG)>>
             /\ pc' = "done"
             /\ UNCHANGED <<currentNorm, newNorm>>
        ELSE /\ currentNorm' = cur
             /\ newNorm' = new
             /\ IF cur = new
                THEN /\ events' = events \o <<received>> \o warnings(result)
                                    \o <<Event("info", MATCH_MSG)>>
                     /\ pc' = "done"
                ELSE /\ events' = events \o <<received>> \o warnings(result)
                     /\ pc' = "report"
  /\ UNCHANGED <<schemaFiles, currentERD, prompt, response, result, summary,
                 failed, fetchCalls, call, ret>>

\* lines 163-174: the summary is composed and written
WriteSummary ==
  /\ pc = "report"
  /\ summary' = Append(summary, summaryText(OUTPUT_PATH, result))
  /\ events' = Append(events, Event("summary", summaryText(OUTPUT_PATH, result)))
  /\ pc' = "fail"
  /\ UNCHANGED <<schemaFiles, currentERD, prompt, response, result, currentNorm,
                 newNorm, failed, fetchCalls, call, ret>>

\* lines 177-178: the error line, then the job is marked failed
FailJob ==
  /\ pc = "fail"
  /\ events' = events \o <<Event("error", errorLine(OUTPUT_PATH)),
                           Event("setFailed", OUT_OF_DATE_MSG)>>
  /\ failed' = Append(failed, OUT_OF_DATE_MSG)
  /\ pc' = "done"
  /\ UNCHANGED <<schemaFiles, currentERD, prompt, response, result, currentNorm,
                 newNorm, summary, fetchCalls, call, ret>>

Next == Collect \/ ReadAndCompose \/ CallOpenAI \/ Catch \/ Classify
          \/ WriteSummary \/ FailJob

Spec == Init /\ [][Next]_vars

-----------------------------------------------------------------------------
(* The pure functions, applied to inputs drawn from bounded sets *)

Idle ==
  /\ pc = "start" /\ schemaFiles = <<>> /\ currentERD = Absent /\ prompt = NoPrompt
  /\ response = NoResponse /\ result = <<>>
  /\ currentNorm = NotComputed /\ newNorm = NotComputed
  /\ events = <<>> /\ summary = <<>> /\ failed = <<>> /\ fetchCalls = 0

Returned == pc = "returned"

(* clampBytes *)

ClampChars == {"a", E_ACUTE, EURO, GRIN, REPLACEMENT}

InitClamp ==
  /\ Idle
  /\ call \in [fn : {"clampBytes"}, s : SeqsUpTo(ClampChars, MaxChars), max : 0..MaxBudget]
  /\ ret = <<>>

ApplyClampBytes ==
  /\ call.fn = "clampBytes" /\ pc = "start"
  /\ pc' = "returned"
  /\ ret' = clampBytes(call.s, call.max)
  /\ UNCHANGED <<runVars, call>>

SpecClamp == InitClamp /\ [][ApplyClampBytes]_vars

(* normalizeERD *)

upperChar(c) ==
  IF InTable(c, LowerLetters) THEN UpperLetters[IndexOf(c, LowerLetters)] ELSE c

toUpperCase(s) == [i \in 1..Len(s) |-> upperChar(s[i])]

LF == Str("\n")
CRLF == Str("\r\n")
CR == Str("\r")

\* The content lines of a diagram, and the cosmetic styles it can be written in.
ContentLines == {Str("a"), Str("b c")}
Docs == {d \in SeqsUpTo(ContentLines, MaxLines) : Len(d) >= 1}
Styles == [eol : {LF, CRLF, CR}, padded : BOOLEAN, blank : BOOLEAN,
           upper : BOOLEAN, final : BOOLEAN]

writeLine(line, st) ==
  (IF st.padded THEN Str(" \t") ELSE <<>>)
    \o (IF st.upper THEN toUpperCase(line) ELSE line)
    \o (IF st.padded THEN Str(" ") ELSE <<>>)

RECURSIVE writeDoc(_, _)
writeDoc(doc, st) ==
  IF Len(doc) = 1
  THEN writeLine(doc[1], st) \o (IF st.final THEN st.eol ELSE <<>>)
  ELSE writeLine(doc[1], st) \o st.eol \o (IF st.blank THEN st.eol ELSE <<>>)
         \o writeDoc(Tail(doc), st)

InitNormalize ==
  /\ Idle
  /\ call \in [fn : {"normalizeERD"}, doc : Docs, left : Styles, right : Styles]
  /\ ret = <<>>

ApplyNormalizeERD ==
  /\ call.fn = "normalizeERD" /\ pc = "start"
  /\ pc' = "returned"
  /\ ret' = <<normalizeERD(writeDoc(call.doc, call.left)),
              normalizeERD(writeDoc(call.doc, call.right))>>
  /\ UNCHANGED <<runVars, call>>

SpecNormalize == InitNormalize /\ [][ApplyNormalizeERD]_vars

(* buildPrompt *)

InitPrompt ==
  /\ Idle
  /\ call \in [fn : {"buildPrompt"}, files : FileLists(MaxFiles),
               erd : {Absent, Stored(DIAGRAM_A)}]
  /\ ret = <<>>

\* The array passed in is sorted in place, so the caller sees the order too.
ApplyBuildPrompt ==
  /\ call.fn = "buildPrompt" /\ pc = "start"
  /\ pc' = "returned"
  /\ ret' = [prompt |-> buildPrompt(REPO, call.files, call.erd),
             files |-> sortSchemaFiles(call.files)]
  /\ UNCHANGED <<runVars, call>>

SpecPrompt == InitPrompt /\ [][ApplyBuildPrompt]_vars

(* callOpenAI's cleaning *)

InitClean ==
  /\ Idle
  /\ call \in [fn : {"cleanCompletion"}, layout : Completions]
  /\ ret = <<>>

ApplyCleanCompletion ==
  /\ call.fn = "cleanCompletion" /\ pc = "start"
  /\ pc' = "returned"
  /\ ret' = cleanCompletion(OkResponse(call.layout))
  /\ UNCHANGED <<runVars, call>>

SpecClean == InitClean /\ [][ApplyCleanCompletion]_vars

-----------------------------------------------------------------------------
(* Properties *)

SENTINEL_LOWER == Str("no_change")
FENCED(text) == FENCE \o MERMAID \o <<"\n">> \o text \o <<"\n">> \o FENCE

HasEvent(level) == \E i \in 1..Len(events) : events[i].level = level
EventAt(level) == CHOOSE i \in 1..Len(events) : events[i].level = level
CountEvents(level) == Cardinality({i \in 1..Len(events) : events[i].level = level})
LastEvent == events[Len(events)]

Succeeded == pc = "done" /\ failed = <<>>
GotCompletion == response.kind = "ok"
SentinelReturned == GotCompletion /\ toLowerCase(result) = SENTINEL_LOWER
Unrecognized ==
  /\ GotCompletion /\ toLowerCase(result) # SENTINEL_LOWER
  /\ ~startsWith(toLowerCase(result), ERDIAGRAM)
storedText == IF currentERD.present THEN currentERD.text ELSE <<>>

\* C1: when the cleaned generator output is the sentinel in any letter case,
\* whatever the stored diagram, the run ends successfully as NoChange: the
\* normalized comparison is never computed, no summary is written and
\* setFailed is never called.
SentinelEndsNoChange ==
  SentinelReturned =>
    /\ pc \in {"classify", "done"}
    /\ currentNorm = NotComputed /\ newNorm = NotComputed
    /\ summary = <<>> /\ failed = <<>> /\ ~HasEvent("setFailed")
    /\ pc = "done" => LastEvent = Event("info", NO_CHANGE_MSG)

SentinelWitness ==
  /\ SentinelReturned /\ pc = "done" /\ result # NO_CHANGE
  /\ currentERD = Stored(DIAGRAM_A)

\* C2: a cleaned output that is neither the sentinel nor begins with erDiagram
\* (the empty output included) is warned about and the run ends failed, for
\* every stored diagram; it never ends in success.
UnrecognizedOutputFails ==
  (pc = "done" /\ Unrecognized) => (HasEvent("warning") /\ failed # <<>>)

NoSchemaFilesFailsFirst ==
  (pc # "start" /\ schemaFiles = <<>>) =>
    /\ pc = "done"
    /\ failed = <<NO_SCHEMA_MSG>> /\ includes(failed[1], Str("schema_globs"))
    /\ events = <<Event("setFailed", NO_SCHEMA_MSG)>>
    /\ fetchCalls = 0 /\ response = NoResponse
    /\ prompt = NoPrompt /\ summary = <<>>

NoSchemaFilesWitness == pc = "done" /\ schemaFiles = <<>> /\ Len(failed) = 1

IsPrefix(p, s) == Len(p) <= Len(s) /\ SubSeq(s, 1, Len(p)) = p

\* C5: clampBytes(s, max) is at most max bytes long in UTF-8 and is a prefix
\* of s made of whole characters: no character is split, no replacement
\* character is introduced, and the result survives an encode/decode round trip.
ClampKeepsWholeCharsWithinBudget ==
  Returned =>
    /\ Len(utf8Encode(ret)) <= call.max
    /\ IsPrefix(ret, call.s)
    /\ utf8Decode(utf8Encode(ret)) = ret

\* C6: two texts that differ only in line-ending style (LF, CRLF or lone CR),
\* in leading or trailing whitespace of lines, in blank lines or in letter
\* case have the same normalizeERD result.
CosmeticVariantsNormalizeAlike == Returned => ret[1] = ret[2]

\* The same with the lone CR left out of the line-ending styles.
LfCrlfVariantsNormalizeAlike ==
  (Returned /\ call.left.eol # CR /\ call.right.eol # CR) => ret[1] = ret[2]

IsPrimary(f) == includes(f.path, SCHEMA_RB)
Others(files) == SelectSeq(files, LAMBDA f : ~IsPrimary(f))

\* C7: buildPrompt concatenates the files with every file whose path contains
\* db/schema.rb before all the others, and the others in arrival order.
PrimarySchemaFirst ==
  Returned =>
    /\ \A i, j \in 1..Len(ret.files) :
         (i < j /\ IsPrimary(ret.files[j])) => IsPrimary(ret.files[i])
    /\ Others(ret.files) = Others(call.files)
    /\ ret.prompt.schemaSnippets = schemaJoined(ret.files)

PrimarySchemaFirstWitness ==
  /\ Returned /\ Len(call.files) >= 4
  /\ ~IsPrimary(call.files[1]) /\ IsPrimary(call.files[2])
  /\ ~IsPrimary(call.files[3]) /\ IsPrimary(call.files[4])

GeneratorFailed == response.kind \in {"http_error", "transport_error", "bad_json"}

\* C8: the generator endpoint is called at most once per run; a non-success
\* status or a transport failure fails the run at once with the error (status
\* and body for a non-success status), with no retry, no classification and
\* no summary.
GeneratorFailureIsFatal ==
  /\ fetchCalls <= 1
  /\ GeneratorFailed =>
       /\ fetchCalls = 1 /\ pc \in {"rejected", "done"}
       /\ currentNorm = NotComputed /\ newNorm = NotComputed /\ summary = <<>>
       /\ pc = "done" =>
            /\ Len(failed) = 1 /\ Len(events) = 2 /\ LastEvent.level = "setFailed"
            /\ response.kind = "http_error" =>
                 /\ startsWith(failed[1], API_ERROR_MSG)
                 /\ includes(failed[1], digits(response.status))
                 /\ includes(failed[1], response.content)

GeneratorFailureWitness ==
  /\ pc = "done" /\ response.kind = "http_error" /\ response.status = 429
  /\ Len(failed) = 1

NoChangeClassified ==
  LastEvent \in {Event("info", NO_CHANGE_MSG), Event("info", MATCH_MSG)}
MaterialChangeClassified == currentNorm # NotComputed /\ currentNorm # newNorm

Unfenced(l) == ~l.open /\ ~l.close
Fenced(l) == l.open /\ l.close

CleanedToInner(l) ==
  /\ ret = trim(l.body)
  /\ l.body = NO_CHANGE => ret = NO_CHANGE
  /\ l.body = DIAGRAM_A => startsWith(ret, Str("erDiagram"))

\* C10 (as stated): the cleaned text is the trimmed text when there are no
\* fences, and the trimmed inner content when the text is fenced, whatever
\* language tag the opening fence carries.
CleanedForAnyTag ==
  (Returned /\ (Unfenced(call.layout) \/ Fenced(call.layout))) =>
    CleanedToInner(call.layout)

\* C10 (amended): the same, for an opening fence that carries no tag or the
\* tag mermaid in any letter case.
CleanedForMermaidTag ==
  (Returned /\ (Unfenced(call.layout) \/
                (Fenced(call.layout) /\ toLowerCase(call.layout.tag) \in {<<>>, MERMAID}))) =>
    CleanedToInner(call.layout)

CleanedWitness ==
  /\ Returned /\ Fenced(call.layout) /\ call.layout.tag = Str("Mermaid")
  /\ call.layout.pad # <<>> /\ call.layout.body = NO_CHANGE /\ ret = NO_CHANGE

====
